---- MODULE Spec2Model ----
\* Document Assistant (Solutions/lab4_document_assistant_complete.py):
\* the document directory, the in-memory document cache, the tag index and its
\* file, and the version archive, with one action per exposed operation.
EXTENDS Integers, Sequences, FiniteSets, TLC

VARIABLES
    disk,            \* DOCUMENTS_DIR: stem of each *.md file |-> its text
    document_cache,  \* document_cache: doc_id |-> record read by load_documents
    tags_cache,      \* tags_cache: doc_id |-> list of tags
    tags_file,       \* TAGS_FILE: whether it exists, and the mapping it stores
    versions,        \* VERSIONS_DIR: stem of each snapshot file |-> its text
    clock,           \* datetime.now(), in whole seconds
    past,            \* history: doc_id |-> every content get_document ever showed for it
    last,            \* history: the call that returned last, with its arguments and result
    calls,           \* history: how many calls have been made
    pc,              \* position inside a call that is run step by step ("idle" between calls)
    cur              \* the call in progress when pc # "idle"

vars ==
    <<disk, document_cache, tags_cache, tags_file, versions, clock, past, last, calls, pc, cur>>

\* ---------------------------------------------------------------- bounds

\* Seconds the clock may advance during a run.
MaxClock == 1

\* Calls made during a run.
MaxCalls == 3

\* ---------------------------------------------------------------- inputs

\* The date part of a timestamp; all calls of a run fall on this day.
Date == "20240315"

\* Characters. An identifier is a sequence of them; Date stands for its eight digits.
Letters == {"a", "b", "d", "e", "h", "l", "n", "o", "r", "w", "x", "y", "E", "N", "W", "X"}
Digits  == {Date} \cup {ToString(t) : t \in 0..(MaxClock + 1)}
Space   == " "
Newline == "\n"

A  == <<"a">>
AD == <<"a", "_", Date>>

\* Identifiers the calls are made with: two that match the pattern, one that does not.
DocIds == {A, AD}
BadIds == {<<"a", ".">>}

\* Identifiers create_document is run with on its own: the empty one, ones with a
\* character outside the pattern, and ones made of the pattern's characters.
CreateIds == {<<>>, <<"a", ".">>, <<"a", Newline>>, <<"a", Newline, "b">>, <<"-">>, A}

Contents == {"hello world", "new"}

\* The document directory as the program finds it at startup.
InitialDirs ==
    {[n \in {} |-> ""],
     A :> "hello world",
     A :> "hello world" @@ AD :> "new"}

\* The characters of a document's text.
Text(content) ==
    CASE content = "hello world" -> <<"h", "e", "l", "l", "o", " ", "w", "o", "r", "l", "d">>
      [] content = "new" -> <<"n", "e", "w">>
      [] content = "New" -> <<"N", "e", "w">>
      [] content = "a.b" -> <<"a", ".", "b">>
      [] content = "ooo" -> <<"o", "o", "o">>

\* Texts and queries that search_documents is run with.
SearchContents == {"hello world", "new", "New", "a.b", "ooo"}
Queries ==
    {<<"n", "e", "w">>, <<"N", "E", "W">>, <<"N">>, <<"l">>, <<"o">>, <<"o", "o">>, <<".">>,
     <<" ">>, <<>>}

\* Tags as the caller passes them, before normalisation.
RawTags == {<<"X">>, <<Space, "x", Space>>, <<"y">>, <<Space>>}

\* ---------------------------------------------------------------- files

EmptyDir == [n \in {} |-> ""]

\* Path.write_text: creates the file or replaces its whole content.
write_text(dir, name, text) ==
    [n \in DOMAIN dir \cup {name} |-> IF n = name THEN text ELSE dir[n]]

\* Path.unlink
unlink(dir, name) == [n \in DOMAIN dir \ {name} |-> dir[n]]

\* Path.exists
exists(dir, name) == name \in DOMAIN dir

\* ---------------------------------------------------------------- helpers

\* datetime.now().strftime("%Y%m%d_%H%M%S"): second resolution.
strftime(t) == <<Date, "_", ToString(t)>>

\* f"{doc_id}_{timestamp}.md" (the stem of the snapshot file)
version_file(doc_id, timestamp) == doc_id \o <<"_">> \o timestamp

\* Version identifiers restore_version is called with: timestamps, and the two
\* other suffixes that complete an identifier of DocIds to an existing file name.
VersionIds ==
    {strftime(t) : t \in 0..MaxClock}
        \cup {<<ToString(t)>> : t \in 0..MaxClock}
        \cup {<<Date, "_">> \o strftime(t) : t \in 0..MaxClock}

\* re.match(r'^[a-zA-Z0-9_-]+$', doc_id), with the emptiness test before it.
\* Without re.MULTILINE, $ matches at the end of the string and also just before a
\* newline that ends the string.
valid_id(doc_id) ==
    LET matched == IF doc_id # <<>> /\ doc_id[Len(doc_id)] = Newline
                   THEN SubSeq(doc_id, 1, Len(doc_id) - 1)
                   ELSE doc_id
    IN  /\ Len(matched) > 0
        /\ \A i \in 1..Len(matched) : matched[i] \in Letters \cup Digits \cup {"_", "-"}

\* load_documents with a glob pattern that matches no document file.
load_documents_wrong_glob(dir) == EmptyDir

\* load_documents: the cache is rebuilt from the directory, one record per file.
load_documents(dir) ==
    [d \in DOMAIN dir |-> [id |-> d, content |-> dir[d]]]

\* The lowercase form of the uppercase letters.
Lowercase == "E" :> "e" @@ "N" :> "n" @@ "W" :> "w" @@ "X" :> "x"

\* str.lower on one character
lower_char(c) == IF c \in DOMAIN Lowercase THEN Lowercase[c] ELSE c

\* str.lower
lower(s) == [i \in 1..Len(s) |-> lower_char(s[i])]

RECURSIVE lstrip(_)
lstrip(s) == IF s # <<>> /\ Head(s) = Space THEN lstrip(Tail(s)) ELSE s

RECURSIVE rstrip(_)
rstrip(s) ==
    IF s # <<>> /\ s[Len(s)] = Space THEN rstrip(SubSeq(s, 1, Len(s) - 1)) ELSE s

\* tag.lower() without strip()
normalize_no_strip(tag) == lower(tag)

\* tag.lower().strip()
normalize(tag) == rstrip(lstrip(lower(tag)))

\* _save_version that returns without writing.
_save_version_skipped(vs, cache, doc_id, t) == vs

\* _save_version: a no-op for an identifier absent from the cache; otherwise the
\* cached content is written to <doc_id>_<timestamp>.md.
_save_version(vs, cache, doc_id, t) ==
    IF doc_id \notin DOMAIN cache
    THEN vs
    ELSE write_text(vs, version_file(doc_id, strftime(t)), cache[doc_id].content)

\* The snapshot files _save_version writes for doc_id: <doc_id>_<timestamp>.md.
\* A timestamp has a fixed width, so a file name has one such reading at most.
is_snapshot_of(stem, doc_id) ==
    \E t \in 0..(MaxClock + 1) : stem = version_file(doc_id, strftime(t))

\* The identifier a snapshot file was written for: its name without the timestamp.
owner_of(stem) == SubSeq(stem, 1, Len(stem) - Len(<<"_">> \o strftime(0)))

\* save_tags that leaves the tag file unwritten.
save_tags_skipped(tags) == [exists |-> FALSE, data |-> EmptyDir]

\* save_tags: the whole index is written to the tag file.
save_tags(tags) == [exists |-> TRUE, data |-> tags]

\* load_tags
load_tags(file) == IF file.exists THEN file.data ELSE EmptyDir

NotFound == "Error: Document not found."

\* get_document
get_document(cache, doc_id) ==
    IF doc_id \notin DOMAIN cache THEN NotFound ELSE cache[doc_id].content

\* list.remove(tag) that drops the tag and all that follows it.
RECURSIVE list_remove_truncating(_, _)
list_remove_truncating(s, tag) ==
    IF s = <<>> \/ Head(s) = tag THEN <<>>
    ELSE <<Head(s)>> \o list_remove_truncating(Tail(s), tag)

\* list.remove(tag): the first occurrence is removed, the order of the rest kept.
RECURSIVE list_remove(_, _)
list_remove(s, tag) ==
    IF s = <<>> THEN <<>>
    ELSE IF Head(s) = tag THEN Tail(s)
    ELSE <<Head(s)>> \o list_remove(Tail(s), tag)

InList(s, x) == \E i \in 1..Len(s) : s[i] = x

\* How many times x stands in the list s.
Occurrences(s, x) == Cardinality({i \in 1..Len(s) : s[i] = x})

\* list_tags: tag_counts[tag] is raised once for every occurrence of the tag in
\* every document's list.
RECURSIVE tag_count(_, _, _)
tag_count(tags, docs, tag) ==
    IF docs = {} THEN 0
    ELSE LET d == CHOOSE x \in docs : TRUE
         IN  Occurrences(tags[d], tag) + tag_count(tags, docs \ {d}, tag)

list_tags(tags) ==
    [tag \in UNION {{tags[d][i] : i \in 1..Len(tags[d])} : d \in DOMAIN tags}
        |-> tag_count(tags, DOMAIN tags, tag)]

\* ---------------------------------------------------------------- search_by_tag

\* The orders in which a dict with the keys S may iterate: tags_cache keeps the
\* order in which its entries were created, which the index as a mapping leaves open.
iteration_orders(S) ==
    {order \in [1..Cardinality(S) -> S] : \A i, j \in DOMAIN order : order[i] = order[j] => i = j}

\* for doc_id, doc_tags in tags_cache.items(): if tag in doc_tags: append(doc_id)
RECURSIVE matching_docs(_, _, _)
matching_docs(order, tags, tag) ==
    IF order = <<>> THEN <<>>
    ELSE (IF InList(tags[Head(order)], tag) THEN <<Head(order)>> ELSE <<>>)
            \o matching_docs(Tail(order), tags, tag)

\* for doc_id in matching_docs: if doc_id in document_cache: a line for doc_id
RECURSIVE listed_docs(_, _)
listed_docs(docs, cache) ==
    IF docs = <<>> THEN <<>>
    ELSE (IF Head(docs) \in DOMAIN cache THEN <<Head(docs)>> ELSE <<>>)
            \o listed_docs(Tail(docs), cache)

\* search_by_tag with the tag looked up as the caller wrote it.
search_by_tag_raw(order, tags, cache, raw) ==
    LET found == matching_docs(order, tags, raw)
    IN  IF found = <<>>
        THEN [kind |-> "No documents found", docs |-> <<>>]
        ELSE [kind |-> "Documents with tag", docs |-> listed_docs(found, cache)]

\* search_by_tag, with tags_cache iterating in the given order
search_by_tag(order, tags, cache, raw) ==
    LET found == matching_docs(order, tags, normalize(raw))
    IN  IF found = <<>>
        THEN [kind |-> "No documents found", docs |-> <<>>]
        ELSE [kind |-> "Documents with tag", docs |-> listed_docs(found, cache)]

\* ---------------------------------------------------------------- search

\* re.escape without any escaping.
re_escape_nothing(query) == query

\* re.escape: a backslash before every character that is no letter, digit or "_".
RECURSIVE re_escape(_)
re_escape(query) ==
    IF query = <<>> THEN <<>>
    ELSE (IF Head(query) \in Letters \cup Digits \cup {"_"}
          THEN <<Head(query)>>
          ELSE <<"\\", Head(query)>>) \o re_escape(Tail(query))

\* The pattern as the re module reads it: an escaped character stands for itself,
\* a bare "." for any character but a newline, any other character for itself.
RECURSIVE re_compile(_)
re_compile(pattern) ==
    IF pattern = <<>> THEN <<>>
    ELSE IF Head(pattern) = "\\" /\ Len(pattern) >= 2
    THEN <<[any |-> FALSE, ch |-> pattern[2]]>> \o re_compile(SubSeq(pattern, 3, Len(pattern)))
    ELSE <<[any |-> Head(pattern) = ".", ch |-> Head(pattern)]>> \o re_compile(Tail(pattern))

\* One pattern element against one character, under re.IGNORECASE or not.
element_matches(e, c, ignorecase) ==
    IF e.any THEN c # "\n"
    ELSE IF ignorecase THEN lower_char(e.ch) = lower_char(c)
    ELSE e.ch = c

match_at(compiled, text, i, ignorecase) ==
    /\ i + Len(compiled) - 1 <= Len(text)
    /\ \A k \in 1..Len(compiled) : element_matches(compiled[k], text[i + k - 1], ignorecase)

\* re.finditer that resumes one character after the start of a match.
RECURSIVE finditer_overlapping(_, _, _, _)
finditer_overlapping(compiled, text, i, ignorecase) ==
    IF i + Len(compiled) - 1 > Len(text) THEN <<>>
    ELSE IF match_at(compiled, text, i, ignorecase)
    THEN <<i>> \o finditer_overlapping(compiled, text, i + 1, ignorecase)
    ELSE finditer_overlapping(compiled, text, i + 1, ignorecase)

\* re.finditer: the start of every match, left to right, without overlap.
RECURSIVE finditer(_, _, _, _)
finditer(compiled, text, i, ignorecase) ==
    IF i + Len(compiled) - 1 > Len(text) THEN <<>>
    ELSE IF match_at(compiled, text, i, ignorecase)
    THEN <<i>> \o finditer(compiled, text, i + (IF compiled = <<>> THEN 1 ELSE Len(compiled)),
                           ignorecase)
    ELSE finditer(compiled, text, i + 1, ignorecase)

\* search_documents: the validation error for a query that is empty once stripped;
\* otherwise match_count for every cached document with a match.
search_documents(cache, query, case_sensitive) ==
    IF rstrip(lstrip(query)) = <<>>
    THEN [kind |-> "error", hits |-> EmptyDir]
    ELSE LET matches(d) == finditer(re_compile(re_escape(query)), Text(cache[d].content),
                                    1, ~case_sensitive)
             found == {d \in DOMAIN cache : matches(d) # <<>>}
         IN  [kind |-> IF found = {} THEN "none" ELSE "found",
              hits |-> [d \in found |-> Len(matches(d))]]

\* search_documents: the results list, built while document_cache iterates in the
\* given order: one entry, with its match_count, for every document with a match.
RECURSIVE search_results(_, _, _, _)
search_results(order, cache, query, case_sensitive) ==
    IF order = <<>> THEN <<>>
    ELSE LET matches == finditer(re_compile(re_escape(query)),
                                 Text(cache[Head(order)].content), 1, ~case_sensitive)
         IN  (IF matches # <<>>
              THEN <<[doc_id |-> Head(order), match_count |-> Len(matches)]>>
              ELSE <<>>) \o search_results(Tail(order), cache, query, case_sensitive)

\* ---------------------------------------------------------------- list_versions

\* The letters in alphabetical order.
UpperCase == <<"E", "N", "W", "X">>
LowerCase == <<"a", "b", "d", "e", "h", "l", "n", "o", "r", "w", "x", "y">>

\* The order of characters in a comparison of strings: newline, space, hyphen, dot,
\* digits, capital letters, underscore, small letters. A time of day starts with 0
\* and the times order as numbers; the date starts with 2.
char_order(c) ==
    CASE c = Newline -> 10
      [] c = Space -> 32
      [] c = "-" -> 45
      [] c = "." -> 46
      [] c = Date -> 300
      [] c = "_" -> 500
      [] \E i \in 1..Len(UpperCase) : UpperCase[i] = c ->
            400 + (CHOOSE i \in 1..Len(UpperCase) : UpperCase[i] = c)
      [] \E i \in 1..Len(LowerCase) : LowerCase[i] = c ->
            600 + (CHOOSE i \in 1..Len(LowerCase) : LowerCase[i] = c)
      [] OTHER -> 100 + (CHOOSE t \in 0..(MaxClock + 1) : ToString(t) = c)

\* s1 < s2 as strings
RECURSIVE string_less(_, _)
string_less(s1, s2) ==
    IF s2 = <<>> THEN FALSE
    ELSE IF s1 = <<>> THEN TRUE
    ELSE IF Head(s1) # Head(s2) THEN char_order(Head(s1)) < char_order(Head(s2))
    ELSE string_less(Tail(s1), Tail(s2))

\* Paths compare as their names do, the suffix ".md" included.
path_less(stem1, stem2) == string_less(stem1 \o <<".">>, stem2 \o <<".">>)

\* sorted(paths, reverse=True)
RECURSIVE sorted_reverse(_)
sorted_reverse(stems) ==
    IF stems = {} THEN <<>>
    ELSE LET top == CHOOSE x \in stems : \A y \in stems \ {x} : path_less(y, x)
         IN  <<top>> \o sorted_reverse(stems \ {top})

\* s starts with prefix
startswith(s, prefix) ==
    Len(s) >= Len(prefix) /\ SubSeq(s, 1, Len(prefix)) = prefix

\* s.replace(old, ""): every occurrence of old is removed, left to right.
RECURSIVE replace_with_nothing(_, _)
replace_with_nothing(s, old) ==
    IF s = <<>> THEN <<>>
    ELSE IF startswith(s, old)
    THEN replace_with_nothing(SubSeq(s, Len(old) + 1, Len(s)), old)
    ELSE <<Head(s)>> \o replace_with_nothing(Tail(s), old)

\* VERSIONS_DIR.glob(f"{doc_id}_*.md")
glob_versions(vs, doc_id) == {n \in DOMAIN vs : startswith(n, doc_id \o <<"_">>)}

\* list_versions: the "Version:" lines of the answer, in their order; none when the
\* answer is "No previous versions found".
list_versions(vs, doc_id) ==
    LET paths == sorted_reverse(glob_versions(vs, doc_id))
    IN  [i \in 1..Len(paths) |-> replace_with_nothing(paths[i], doc_id \o <<"_">>)]

\* ---------------------------------------------------------------- statistics

\* sum(...) of f over the keys S
RECURSIVE sum_of(_, _)
sum_of(f, S) ==
    IF S = {} THEN 0
    ELSE LET k == CHOOSE x \in S : TRUE IN f[k] + sum_of(f, S \ {k})

\* len(content.split()): the words of a text, separated by whitespace.
word_count(text) ==
    Cardinality({i \in 1..Len(text) : text[i] # Space /\ (i = 1 \/ text[i - 1] = Space)})

\* The report of get_document_stats past the emptiness test; a // b raises
\* ZeroDivisionError when b is zero.
collection_statistics(cache, tags) ==
    LET total_docs  == Cardinality(DOMAIN cache)
        total_size  == sum_of([d \in DOMAIN cache |-> Len(Text(cache[d].content))], DOMAIN cache)
        total_words == sum_of([d \in DOMAIN cache |-> word_count(Text(cache[d].content))],
                              DOMAIN cache)
        total_tags  == sum_of([d \in DOMAIN tags |-> Len(tags[d])], DOMAIN tags)
        unique_tags == Cardinality(UNION {{tags[d][i] : i \in 1..Len(tags[d])} : d \in DOMAIN tags})
    IN  IF total_docs = 0
        THEN [kind |-> "ZeroDivisionError"]
        ELSE [kind |-> "statistics",
              total_docs |-> total_docs,
              total_size |-> total_size,
              average_size |-> total_size \div total_docs,
              total_words |-> total_words,
              average_words |-> total_words \div total_docs,
              total_tags |-> total_tags,
              unique_tags |-> unique_tags]

\* get_document_stats without the test "if not document_cache".
get_document_stats_unguarded(cache, tags) == collection_statistics(cache, tags)

\* get_document_stats
get_document_stats(cache, tags) ==
    IF DOMAIN cache = {}
    THEN [kind |-> "No documents in the collection."]
    ELSE collection_statistics(cache, tags)

\* ---------------------------------------------------------------- history

\* Every content that has been current for an identifier, the present one included.
Remember(p, cache) ==
    [d \in DOMAIN p |-> p[d] \cup (IF d \in DOMAIN cache THEN {cache[d].content} ELSE {})]

NoArg == <<>>

Call(op, doc_id, arg, flag, result) ==
    [op |-> op, doc_id |-> doc_id, arg |-> arg, flag |-> flag, result |-> result]

\* Between two calls, with calls left to make.
Idle == pc = "idle" /\ calls < MaxCalls

NoCall == Call("none", <<>>, NoArg, FALSE, "ok")

\* ---------------------------------------------------------------- Init

\* The module's top level: the directories exist, the version archive and the tag
\* file are empty, and load_documents() and load_tags() have run.
Init ==
    /\ disk \in InitialDirs
    /\ document_cache = load_documents(disk)
    /\ tags_file = [exists |-> FALSE, data |-> EmptyDir]
    /\ tags_cache = load_tags(tags_file)
    /\ versions = EmptyDir
    /\ clock = 0
    /\ past = Remember([d \in DocIds |-> {}], document_cache)
    /\ last = NoCall
    /\ calls = 0
    /\ pc = "idle"
    /\ cur = NoCall

\* ---------------------------------------------------------------- operations

\* The clock advances between calls or between the steps of one.
Tick ==
    /\ clock < MaxClock
    /\ clock' = clock + 1
    /\ UNCHANGED <<disk, document_cache, tags_cache, tags_file, versions, past, last, calls, pc, cur>>

\* A call that returns without touching any state.
Returns(c) ==
    /\ last' = c
    /\ calls' = calls + 1
    /\ UNCHANGED <<disk, document_cache, tags_cache, tags_file, versions, clock, past, pc, cur>>

\* Stored without the call of load_documents() after the write.
Stored_noreload(dir, vs, c) ==
    /\ disk' = dir
    /\ versions' = vs
    /\ document_cache' = document_cache
    /\ past' = Remember(past, document_cache)
    /\ last' = c
    /\ calls' = calls + 1

\* The end of a call that wrote the directory and the archive, and reloaded the cache.
Stored(dir, vs, c) ==
    /\ disk' = dir
    /\ versions' = vs
    /\ document_cache' = load_documents(dir)
    /\ past' = Remember(past, load_documents(dir))
    /\ last' = c
    /\ calls' = calls + 1

\* create_document with _save_version called ahead of the test of overwrite.
create_document_snapshot_early(doc_id, content, overwrite) ==
    /\ Idle
    /\ IF ~valid_id(doc_id)
       THEN Returns(Call("create", doc_id, content, overwrite, "invalid"))
       ELSE IF exists(disk, doc_id) /\ ~overwrite
       THEN /\ versions' = _save_version(versions, document_cache, doc_id, clock)
            /\ last' = Call("create", doc_id, content, overwrite, "exists")
            /\ calls' = calls + 1
            /\ UNCHANGED <<disk, document_cache, tags_cache, tags_file, clock, past, pc, cur>>
       ELSE /\ Stored(write_text(disk, doc_id, content),
                      _save_version(versions, document_cache, doc_id, clock),
                      Call("create", doc_id, content, overwrite, "ok"))
            /\ UNCHANGED <<tags_cache, tags_file, clock, pc, cur>>

\* create_document without the call of _save_version.
create_document_no_snapshot(doc_id, content, overwrite) ==
    /\ Idle
    /\ IF ~valid_id(doc_id)
       THEN Returns(Call("create", doc_id, content, overwrite, "invalid"))
       ELSE IF exists(disk, doc_id) /\ ~overwrite
       THEN Returns(Call("create", doc_id, content, overwrite, "exists"))
       ELSE /\ Stored(write_text(disk, doc_id, content), versions,
                      Call("create", doc_id, content, overwrite, "ok"))
            /\ UNCHANGED <<tags_cache, tags_file, clock, pc, cur>>

\* create_document without the test "filepath.exists() and not overwrite".
create_document_no_exists_test(doc_id, content, overwrite) ==
    /\ Idle
    /\ IF ~valid_id(doc_id)
       THEN Returns(Call("create", doc_id, content, overwrite, "invalid"))
       ELSE LET vs == IF exists(disk, doc_id) /\ overwrite
                      THEN _save_version(versions, document_cache, doc_id, clock)
                      ELSE versions
            IN  /\ Stored(write_text(disk, doc_id, content), vs,
                          Call("create", doc_id, content, overwrite, "ok"))
                /\ UNCHANGED <<tags_cache, tags_file, clock, pc, cur>>

create_document(doc_id, content, overwrite) ==
    /\ Idle
    /\ IF ~valid_id(doc_id)
       THEN Returns(Call("create", doc_id, content, overwrite, "invalid"))
       ELSE IF exists(disk, doc_id) /\ ~overwrite
       THEN Returns(Call("create", doc_id, content, overwrite, "exists"))
       ELSE LET vs == IF exists(disk, doc_id) /\ overwrite
                      THEN _save_version(versions, document_cache, doc_id, clock)
                      ELSE versions
            IN  /\ Stored(write_text(disk, doc_id, content), vs,
                          Call("create", doc_id, content, overwrite, "ok"))
                /\ UNCHANGED <<tags_cache, tags_file, clock, pc, cur>>

\* delete_document with _save_version called after the removal and the reload.
delete_document_snapshot_late(doc_id, confirm) ==
    /\ Idle
    /\ IF doc_id \notin DOMAIN document_cache
       THEN Returns(Call("delete", doc_id, NoArg, confirm, "not_found"))
       ELSE IF ~confirm
       THEN Returns(Call("delete", doc_id, NoArg, confirm, "confirm"))
       ELSE /\ Stored(unlink(disk, doc_id),
                      _save_version(versions, load_documents(unlink(disk, doc_id)),
                                    doc_id, clock),
                      Call("delete", doc_id, NoArg, confirm, "ok"))
            /\ IF doc_id \in DOMAIN tags_cache
               THEN /\ tags_cache' = unlink(tags_cache, doc_id)
                    /\ tags_file' = save_tags(unlink(tags_cache, doc_id))
               ELSE UNCHANGED <<tags_cache, tags_file>>
            /\ UNCHANGED <<clock, pc, cur>>

\* delete_document without the removal of the document's tag entry.
delete_document_keeps_tags(doc_id, confirm) ==
    /\ Idle
    /\ IF doc_id \notin DOMAIN document_cache
       THEN Returns(Call("delete", doc_id, NoArg, confirm, "not_found"))
       ELSE IF ~confirm
       THEN Returns(Call("delete", doc_id, NoArg, confirm, "confirm"))
       ELSE /\ Stored(unlink(disk, doc_id),
                      _save_version(versions, document_cache, doc_id, clock),
                      Call("delete", doc_id, NoArg, confirm, "ok"))
            /\ UNCHANGED <<tags_cache, tags_file, clock, pc, cur>>

\* delete_document without the test of confirm.
delete_document_unconfirmed(doc_id, confirm) ==
    /\ Idle
    /\ IF doc_id \notin DOMAIN document_cache
       THEN Returns(Call("delete", doc_id, NoArg, confirm, "not_found"))
       ELSE /\ Stored(unlink(disk, doc_id),
                      _save_version(versions, document_cache, doc_id, clock),
                      Call("delete", doc_id, NoArg, confirm, "ok"))
            /\ IF doc_id \in DOMAIN tags_cache
               THEN /\ tags_cache' = unlink(tags_cache, doc_id)
                    /\ tags_file' = save_tags(unlink(tags_cache, doc_id))
               ELSE UNCHANGED <<tags_cache, tags_file>>
            /\ UNCHANGED <<clock, pc, cur>>

delete_document(doc_id, confirm) ==
    /\ Idle
    /\ IF doc_id \notin DOMAIN document_cache
       THEN Returns(Call("delete", doc_id, NoArg, confirm, "not_found"))
       ELSE IF ~confirm
       THEN Returns(Call("delete", doc_id, NoArg, confirm, "confirm"))
       ELSE /\ Stored(unlink(disk, doc_id),
                      _save_version(versions, document_cache, doc_id, clock),
                      Call("delete", doc_id, NoArg, confirm, "ok"))
            /\ IF doc_id \in DOMAIN tags_cache
               THEN /\ tags_cache' = unlink(tags_cache, doc_id)
                    /\ tags_file' = save_tags(unlink(tags_cache, doc_id))
               ELSE UNCHANGED <<tags_cache, tags_file>>
            /\ UNCHANGED <<clock, pc, cur>>

\* update_document with _save_version called after the write and the reload.
update_document_snapshot_late(doc_id, new_content) ==
    /\ Idle
    /\ IF doc_id \notin DOMAIN document_cache
       THEN Returns(Call("update", doc_id, new_content, FALSE, "not_found"))
       ELSE /\ Stored(write_text(disk, doc_id, new_content),
                      _save_version(versions,
                                    load_documents(write_text(disk, doc_id, new_content)),
                                    doc_id, clock),
                      Call("update", doc_id, new_content, FALSE, "ok"))
            /\ UNCHANGED <<tags_cache, tags_file, clock, pc, cur>>

\* update_document without the test "doc_id not in document_cache".
update_document_no_lookup(doc_id, new_content) ==
    /\ Idle
    /\ Stored(write_text(disk, doc_id, new_content),
              _save_version(versions, document_cache, doc_id, clock),
              Call("update", doc_id, new_content, FALSE, "ok"))
    /\ UNCHANGED <<tags_cache, tags_file, clock, pc, cur>>

update_document(doc_id, new_content) ==
    /\ Idle
    /\ IF doc_id \notin DOMAIN document_cache
       THEN Returns(Call("update", doc_id, new_content, FALSE, "not_found"))
       ELSE /\ Stored(write_text(disk, doc_id, new_content),
                      _save_version(versions, document_cache, doc_id, clock),
                      Call("update", doc_id, new_content, FALSE, "ok"))
            /\ UNCHANGED <<tags_cache, tags_file, clock, pc, cur>>

\* restore_version that also drops the tag entry of the document.
restore_version_drops_tags(doc_id, version_id) ==
    /\ Idle
    /\ IF ~exists(versions, version_file(doc_id, version_id))
       THEN Returns(Call("restore", doc_id, version_id, FALSE, "not_found"))
       ELSE LET vs == IF doc_id \in DOMAIN document_cache
                      THEN _save_version(versions, document_cache, doc_id, clock)
                      ELSE versions
                content == vs[version_file(doc_id, version_id)]
            IN  /\ Stored(write_text(disk, doc_id, content), vs,
                          Call("restore", doc_id, version_id, FALSE, "ok"))
                /\ tags_cache' = unlink(tags_cache, doc_id)
                /\ tags_file' = save_tags(unlink(tags_cache, doc_id))
                /\ UNCHANGED <<clock, pc, cur>>

restore_version(doc_id, version_id) ==
    /\ Idle
    /\ IF ~exists(versions, version_file(doc_id, version_id))
       THEN Returns(Call("restore", doc_id, version_id, FALSE, "not_found"))
       ELSE LET vs == IF doc_id \in DOMAIN document_cache
                      THEN _save_version(versions, document_cache, doc_id, clock)
                      ELSE versions
                content == vs[version_file(doc_id, version_id)]
            IN  /\ Stored(write_text(disk, doc_id, content), vs,
                          Call("restore", doc_id, version_id, FALSE, "ok"))
                /\ UNCHANGED <<tags_cache, tags_file, clock, pc, cur>>

\* add_tag with the entry created ahead of the test of the tag.
add_tag_entry_first(doc_id, raw) ==
    /\ Idle
    /\ LET tag == normalize(raw)
           entry == IF doc_id \in DOMAIN tags_cache THEN tags_cache[doc_id] ELSE <<>>
           created == write_text(tags_cache, doc_id, entry)
       IN  IF doc_id \notin DOMAIN document_cache
           THEN Returns(Call("add_tag", doc_id, raw, FALSE, "not_found"))
           ELSE IF tag = <<>>
           THEN /\ tags_cache' = created
                /\ last' = Call("add_tag", doc_id, raw, FALSE, "empty")
                /\ calls' = calls + 1
                /\ UNCHANGED <<disk, document_cache, tags_file, versions, clock, past, pc, cur>>
           ELSE IF InList(entry, tag)
           THEN Returns(Call("add_tag", doc_id, raw, FALSE, "tag_exists"))
           ELSE /\ tags_cache' = write_text(created, doc_id, Append(entry, tag))
                /\ tags_file' = save_tags(tags_cache')
                /\ last' = Call("add_tag", doc_id, raw, FALSE, "ok")
                /\ calls' = calls + 1
                /\ UNCHANGED <<disk, document_cache, versions, clock, past, pc, cur>>

\* add_tag without the test "tag in tags_cache[doc_id]".
add_tag_no_duplicate_test(doc_id, raw) ==
    /\ Idle
    /\ LET tag == normalize(raw)
           entry == IF doc_id \in DOMAIN tags_cache THEN tags_cache[doc_id] ELSE <<>>
           created == write_text(tags_cache, doc_id, entry)
       IN  IF doc_id \notin DOMAIN document_cache
           THEN Returns(Call("add_tag", doc_id, raw, FALSE, "not_found"))
           ELSE IF tag = <<>>
           THEN Returns(Call("add_tag", doc_id, raw, FALSE, "empty"))
           ELSE /\ tags_cache' = write_text(created, doc_id, Append(entry, tag))
                /\ tags_file' = save_tags(tags_cache')
                /\ last' = Call("add_tag", doc_id, raw, FALSE, "ok")
                /\ calls' = calls + 1
                /\ UNCHANGED <<disk, document_cache, versions, clock, past, pc, cur>>

add_tag(doc_id, raw) ==
    /\ Idle
    /\ LET tag == normalize(raw)
           entry == IF doc_id \in DOMAIN tags_cache THEN tags_cache[doc_id] ELSE <<>>
           created == write_text(tags_cache, doc_id, entry)
       IN  IF doc_id \notin DOMAIN document_cache
           THEN Returns(Call("add_tag", doc_id, raw, FALSE, "not_found"))
           ELSE IF tag = <<>>
           THEN Returns(Call("add_tag", doc_id, raw, FALSE, "empty"))
           ELSE IF InList(entry, tag)
           THEN \* the entry exists already: nothing is written
                Returns(Call("add_tag", doc_id, raw, FALSE, "tag_exists"))
           ELSE /\ tags_cache' = write_text(created, doc_id, Append(entry, tag))
                /\ tags_file' = save_tags(tags_cache')
                /\ last' = Call("add_tag", doc_id, raw, FALSE, "ok")
                /\ calls' = calls + 1
                /\ UNCHANGED <<disk, document_cache, versions, clock, past, pc, cur>>

\* remove_tag without the call of save_tags().
remove_tag_unsaved(doc_id, raw) ==
    /\ Idle
    /\ LET tag == normalize(raw)
       IN  IF doc_id \notin DOMAIN document_cache
           THEN Returns(Call("remove_tag", doc_id, raw, FALSE, "not_found"))
           ELSE IF doc_id \notin DOMAIN tags_cache \/ ~InList(tags_cache[doc_id], tag)
           THEN Returns(Call("remove_tag", doc_id, raw, FALSE, "tag_not_found"))
           ELSE /\ tags_cache' = write_text(tags_cache, doc_id,
                                            list_remove(tags_cache[doc_id], tag))
                /\ last' = Call("remove_tag", doc_id, raw, FALSE, "ok")
                /\ calls' = calls + 1
                /\ UNCHANGED <<disk, document_cache, tags_file, versions, clock, past, pc, cur>>

remove_tag(doc_id, raw) ==
    /\ Idle
    /\ LET tag == normalize(raw)
       IN  IF doc_id \notin DOMAIN document_cache
           THEN Returns(Call("remove_tag", doc_id, raw, FALSE, "not_found"))
           ELSE IF doc_id \notin DOMAIN tags_cache \/ ~InList(tags_cache[doc_id], tag)
           THEN Returns(Call("remove_tag", doc_id, raw, FALSE, "tag_not_found"))
           ELSE /\ tags_cache' = write_text(tags_cache, doc_id,
                                            list_remove(tags_cache[doc_id], tag))
                /\ tags_file' = save_tags(tags_cache')
                /\ last' = Call("remove_tag", doc_id, raw, FALSE, "ok")
                /\ calls' = calls + 1
                /\ UNCHANGED <<disk, document_cache, versions, clock, past, pc, cur>>

Next ==
    \/ Tick
    \/ \E d \in DocIds \cup BadIds, c \in Contents, o \in BOOLEAN : create_document(d, c, o)
    \/ \E d \in DocIds, f \in BOOLEAN : delete_document(d, f)
    \/ \E d \in DocIds, c \in Contents : update_document(d, c)
    \/ \E d \in DocIds, v \in VersionIds : restore_version(d, v)
    \/ \E d \in DocIds, t \in RawTags : add_tag(d, t)
    \/ \E d \in DocIds, t \in RawTags : remove_tag(d, t)

Spec == Init /\ [][Next]_vars


\* ------------------------------------------------- the same calls, step by step

\* The steps of a call that writes: the checks and the snapshot, the write or
\* removal of the document file, the removal of the tag entry (delete), the reload.

Begins(vs, c) ==
    /\ versions' = vs
    /\ cur' = c
    /\ pc' = "saved"
    /\ calls' = calls + 1
    /\ UNCHANGED <<disk, document_cache, tags_cache, tags_file, clock, past, last>>

create_document_begin(doc_id, content, overwrite) ==
    /\ Idle
    /\ IF ~valid_id(doc_id)
       THEN Returns(Call("create", doc_id, content, overwrite, "invalid"))
       ELSE IF exists(disk, doc_id) /\ ~overwrite
       THEN Returns(Call("create", doc_id, content, overwrite, "exists"))
       ELSE Begins(IF exists(disk, doc_id) /\ overwrite
                   THEN _save_version(versions, document_cache, doc_id, clock)
                   ELSE versions,
                   Call("create", doc_id, content, overwrite, "ok"))

delete_document_begin(doc_id, confirm) ==
    /\ Idle
    /\ IF doc_id \notin DOMAIN document_cache
       THEN Returns(Call("delete", doc_id, NoArg, confirm, "not_found"))
       ELSE IF ~confirm
       THEN Returns(Call("delete", doc_id, NoArg, confirm, "confirm"))
       ELSE Begins(_save_version(versions, document_cache, doc_id, clock),
                   Call("delete", doc_id, NoArg, confirm, "ok"))

update_document_begin(doc_id, new_content) ==
    /\ Idle
    /\ IF doc_id \notin DOMAIN document_cache
       THEN Returns(Call("update", doc_id, new_content, FALSE, "not_found"))
       ELSE Begins(_save_version(versions, document_cache, doc_id, clock),
                   Call("update", doc_id, new_content, FALSE, "ok"))

restore_version_begin(doc_id, version_id) ==
    /\ Idle
    /\ IF ~exists(versions, version_file(doc_id, version_id))
       THEN Returns(Call("restore", doc_id, version_id, FALSE, "not_found"))
       ELSE Begins(IF doc_id \in DOMAIN document_cache
                   THEN _save_version(versions, document_cache, doc_id, clock)
                   ELSE versions,
                   Call("restore", doc_id, version_id, FALSE, "ok"))

\* filepath.write_text(...) or filepath.unlink() of the call in progress
write_file ==
    /\ pc = "saved"
    /\ disk' = CASE cur.op = "delete" -> unlink(disk, cur.doc_id)
                 [] cur.op = "restore" ->
                        write_text(disk, cur.doc_id,
                                   versions[version_file(cur.doc_id, cur.arg)])
                 [] OTHER -> write_text(disk, cur.doc_id, cur.arg)
    /\ pc' = "written"
    /\ UNCHANGED <<document_cache, tags_cache, tags_file, versions, clock, past, last, calls, cur>>

\* delete_document: the tag entry is removed and the index saved
remove_tags ==
    /\ pc = "written"
    /\ cur.op = "delete"
    /\ IF cur.doc_id \in DOMAIN tags_cache
       THEN /\ tags_cache' = unlink(tags_cache, cur.doc_id)
            /\ tags_file' = save_tags(unlink(tags_cache, cur.doc_id))
       ELSE UNCHANGED <<tags_cache, tags_file>>
    /\ pc' = "untagged"
    /\ UNCHANGED <<disk, document_cache, versions, clock, past, last, calls, cur>>

\* load_documents() and the return of the call in progress
reload ==
    /\ \/ pc = "written" /\ cur.op # "delete"
       \/ pc = "untagged"
    /\ document_cache' = load_documents(disk)
    /\ past' = Remember(past, load_documents(disk))
    /\ last' = cur
    /\ cur' = NoCall
    /\ pc' = "idle"
    /\ UNCHANGED <<disk, tags_cache, tags_file, versions, clock, calls>>

StepNext ==
    \/ Tick
    \/ \E d \in DocIds \cup BadIds, c \in Contents, o \in BOOLEAN :
            create_document_begin(d, c, o)
    \/ \E d \in DocIds, f \in BOOLEAN : delete_document_begin(d, f)
    \/ \E d \in DocIds, c \in Contents : update_document_begin(d, c)
    \/ \E d \in DocIds, v \in VersionIds : restore_version_begin(d, v)
    \/ write_file
    \/ remove_tags
    \/ reload
    \/ \E d \in DocIds, t \in RawTags : add_tag(d, t)
    \/ \E d \in DocIds, t \in RawTags : remove_tag(d, t)

SpecSteps == Init /\ [][StepNext]_vars


\* ---------------------------------------------------------------- claims

\* A step of Spec in which the call recorded in last' was made and returned.
Returned(op) == calls' = calls + 1 /\ last'.op = op

\* The snapshot files that a step created.
NewSnapshots == DOMAIN versions' \ DOMAIN versions

\* C1: update_document(d, c2) on a cached document with content c1 produces exactly
\* one new version snapshot of d, that snapshot holds c1, and get_document(d)
\* returns c2 afterwards, whatever the clock reads at the call.
C1_UpdateAddsOneVersion ==
    [][Returned("update") /\ last'.result = "ok" =>
        /\ Cardinality(NewSnapshots) = 1
        /\ \A s \in NewSnapshots :
                /\ is_snapshot_of(s, last'.doc_id)
                /\ versions'[s] = get_document(document_cache, last'.doc_id)
        /\ get_document(document_cache', last'.doc_id) = last'.arg]_vars

\* C2: restore_version(d, v) on a cached document with content c_now, v a version
\* of d that stores c_v when the call begins: afterwards get_document(d) returns
\* c_v and a snapshot of d stores c_now, whatever the clock reads at the call.
C2_RestoreInstallsVersion ==
    [][/\ Returned("restore")
       /\ last'.doc_id \in DOMAIN document_cache
       /\ last'.arg \in {strftime(t) : t \in 0..MaxClock}
       /\ exists(versions, version_file(last'.doc_id, last'.arg))
       => /\ get_document(document_cache', last'.doc_id)
                = versions[version_file(last'.doc_id, last'.arg)]
          /\ \E s \in DOMAIN versions' :
                /\ is_snapshot_of(s, last'.doc_id)
                /\ versions'[s] = get_document(document_cache, last'.doc_id)]_vars

\* C3: delete_document(d, confirm=True) on a cached document with content c removes
\* d's file, d from the cache, d's entry from the tag index and from the tag file,
\* and produces exactly one new version snapshot of d, holding c, whatever the
\* clock reads at the call.
C3_DeleteRemovesAndSnapshots ==
    [][Returned("delete") /\ last'.flag /\ last'.doc_id \in DOMAIN document_cache =>
        /\ ~exists(disk', last'.doc_id)
        /\ last'.doc_id \notin DOMAIN document_cache'
        /\ last'.doc_id \notin DOMAIN tags_cache'
        /\ last'.doc_id \notin DOMAIN load_tags(tags_file')
        /\ Cardinality(NewSnapshots) = 1
        /\ \A s \in NewSnapshots :
                /\ is_snapshot_of(s, last'.doc_id)
                /\ versions'[s] = get_document(document_cache, last'.doc_id)]_vars

\* C4: delete_document(d, confirm=False) on an existing document returns the
\* confirmation warning and changes neither the directory, the cache, the tag
\* index, the tag file nor the archive; a document file disappears only in a
\* delete_document call for it with confirm=True.
C4_UnconfirmedDeleteChangesNothing ==
    [][/\ Returned("delete") /\ ~last'.flag /\ last'.doc_id \in DOMAIN document_cache
            => /\ last'.result = "confirm"
               /\ UNCHANGED <<disk, document_cache, tags_cache, tags_file, versions>>
       /\ \A d \in DOMAIN disk :
            ~exists(disk', d) =>
                Returned("delete") /\ last'.doc_id = d /\ last'.flag]_vars

C4_Witness ==
    /\ last.op = "delete"
    /\ ~last.flag
    /\ last.result = "confirm"
    /\ exists(disk, last.doc_id)
    /\ last.doc_id \in DOMAIN tags_cache
    /\ versions # EmptyDir

C6_CacheMatchesDirectory ==
    /\ DOMAIN document_cache = DOMAIN disk
    /\ \A d \in DOMAIN disk :
            document_cache[d].id = d /\ document_cache[d].content = disk[d]

C6_Witness ==
    /\ last.op = "restore"
    /\ last.result = "ok"
    /\ C6_CacheMatchesDirectory
    /\ Cardinality(DOMAIN disk) = 2
    /\ Cardinality(past[last.doc_id]) = 2

\* C7: inside a call that replaces or removes the content of an existing document,
\* from the snapshot step to the return, the content the document had when the call
\* began is in the document file or in a version snapshot of the document.
C7_SnapshotBeforeWrite ==
    pc # "idle" /\ cur.doc_id \in DOMAIN document_cache =>
        \/ /\ exists(disk, cur.doc_id)
           /\ disk[cur.doc_id] = document_cache[cur.doc_id].content
        \/ \E s \in DOMAIN versions :
                /\ is_snapshot_of(s, cur.doc_id)
                /\ versions[s] = document_cache[cur.doc_id].content

C7_Witness ==
    /\ pc = "written"
    /\ cur.op \in {"update", "create", "restore"}
    /\ cur.doc_id \in DOMAIN document_cache
    /\ disk[cur.doc_id] # document_cache[cur.doc_id].content
    /\ C7_SnapshotBeforeWrite

\* C8: a snapshot file, once written, exists in every later state with the same
\* content.
C8_SnapshotsImmutable ==
    [][\A s \in DOMAIN versions :
            exists(versions', s) /\ versions'[s] = versions[s]]_vars

\* C9: every content that was at some point the current content of d is d's
\* current content or the content of a version snapshot of d.
C9_NoContentLost ==
    \A d \in DocIds : \A c \in past[d] :
        \/ get_document(document_cache, d) = c
        \/ \E s \in DOMAIN versions : is_snapshot_of(s, d) /\ versions[s] = c

\* C10: a step that writes a snapshot file writes it under the name of a cached
\* document, with the content the cache held for that document before the step;
\* so every snapshot holds a content that was current for the document it is named
\* for.
C10_SnapshotHoldsPriorContent ==
    /\ [](\A s \in DOMAIN versions :
            owner_of(s) \in DocIds /\ versions[s] \in past[owner_of(s)])
    /\ [][\A s \in DOMAIN versions' :
            (~exists(versions, s) \/ versions'[s] # versions[s]) =>
                /\ is_snapshot_of(s, owner_of(s))
                /\ owner_of(s) \in DOMAIN document_cache
                /\ versions'[s] = document_cache[owner_of(s)].content]_vars

C10_Witness ==
    /\ last.op = "update"
    /\ last.result = "ok"
    /\ \E s \in DOMAIN versions :
            /\ is_snapshot_of(s, last.doc_id)
            /\ versions[s] # last.arg
    /\ \E d \in DOMAIN document_cache :
            d # last.doc_id /\ document_cache[d].content = last.arg

\* C11: add_tag(d, t1) followed by add_tag(d, t2), t1 and t2 with the same normal
\* form: the second call reports that the tag exists and changes nothing, d's list
\* holds the normalized tag once, and list_tags counts it once per document that
\* carries it.
C11_AddTagIdempotent ==
    [][/\ last.op = "add_tag" /\ last.result \in {"ok", "tag_exists"}
       /\ Returned("add_tag")
       /\ last'.doc_id = last.doc_id
       /\ normalize(last'.arg) = normalize(last.arg)
       => /\ last'.result = "tag_exists"
          /\ UNCHANGED <<disk, document_cache, tags_cache, tags_file, versions>>
          /\ Occurrences(tags_cache'[last'.doc_id], normalize(last'.arg)) = 1
          /\ list_tags(tags_cache')[normalize(last'.arg)]
                = Cardinality({d \in DOMAIN tags_cache' :
                                 InList(tags_cache'[d], normalize(last'.arg))})]_vars

C11_Witness ==
    /\ calls = 2
    /\ last = Call("add_tag", A, <<Space, "x", Space>>, FALSE, "tag_exists")
    /\ tags_cache = A :> <<<<"x">>>>
    /\ list_tags(tags_cache) = <<"x">> :> 1

\* C13: in every state between calls get_document_stats returns without dividing by
\* zero: the empty-collection message when the cache is empty, and figures over at
\* least one document otherwise.
C13_StatsNeverDivideByZero ==
    LET r == get_document_stats(document_cache, tags_cache)
    IN  /\ r.kind # "ZeroDivisionError"
        /\ DOMAIN document_cache = {} => r.kind = "No documents in the collection."
        /\ DOMAIN document_cache # {} => r.kind = "statistics" /\ r.total_docs > 0

C13_Witness ==
    /\ last.op = "delete"
    /\ last.result = "ok"
    /\ DOMAIN document_cache = {}
    /\ versions # EmptyDir
    /\ get_document_stats(document_cache, tags_cache).kind = "No documents in the collection."

\* C14: create_document(d, c, overwrite=False) on an identifier that exists returns the
\* already-exists error and leaves the directory, the cache, the tag index, its file
\* and the version archive as they were.
C14_CreateExistingRefused ==
    [][/\ Returned("create")
       /\ last'.doc_id \in DOMAIN document_cache
       /\ ~last'.flag
       => /\ last'.result = "exists"
          /\ UNCHANGED <<disk, document_cache, tags_cache, tags_file, versions>>]_vars

C14_Witness ==
    /\ last.op = "create"
    /\ last.result = "exists"
    /\ ~last.flag
    /\ last.doc_id \in DOMAIN document_cache
    /\ document_cache[last.doc_id].content # last.arg
    /\ last.doc_id \in DOMAIN tags_cache

\* C16: update_document, delete_document (confirmed or not) and add_tag on an
\* identifier absent from the cache return the not-found error and leave the
\* directory, the cache, the archive, the tag index and its file as they were.
C16_AbsentIdNotFound ==
    [][/\ Returned("update") \/ Returned("delete") \/ Returned("add_tag")
       /\ last'.doc_id \notin DOMAIN document_cache
       => /\ last'.result = "not_found"
          /\ UNCHANGED <<disk, document_cache, tags_cache, tags_file, versions>>]_vars

C16_Witness ==
    /\ last.op = "add_tag"
    /\ last.result = "not_found"
    /\ last.doc_id \notin DOMAIN document_cache
    /\ last.doc_id \notin DOMAIN tags_cache
    /\ tags_file.exists
    /\ exists(versions, version_file(last.doc_id, strftime(clock)))

\* A snapshot with version identifier v was taken of document d: v is a timestamp
\* and the archive holds the file _save_version writes for d at that time.
Taken(vs, d, v) ==
    \E t \in 0..(MaxClock + 1) : v = strftime(t) /\ exists(vs, version_file(d, v))

\* C17: restore_version(d, v) for which no snapshot with identifier v was taken of d
\* returns the not-found error and changes nothing.
C17_RestoreOnlyOwnSnapshots ==
    [][/\ Returned("restore")
       /\ ~Taken(versions, last'.doc_id, last'.arg)
       => /\ last'.result = "not_found"
          /\ UNCHANGED <<disk, document_cache, tags_cache, tags_file, versions>>]_vars

\* The timestamps of the snapshots of d in the archive, the newest first.
RECURSIVE newest_first(_, _, _)
newest_first(vs, d, t) ==
    IF t < 0 THEN <<>>
    ELSE (IF exists(vs, version_file(d, strftime(t))) THEN <<strftime(t)>> ELSE <<>>)
            \o newest_first(vs, d, t - 1)

\* C18: list_versions(d) returns exactly the snapshots taken of d, none of another
\* document, the newest first.
C18_ListVersionsOwnNewestFirst ==
    \A d \in DocIds : list_versions(versions, d) = newest_first(versions, d, MaxClock + 1)

\* C19: between calls the tag file holds the in-memory tag index, and a call that
\* changes the index leaves the whole new index in the file.
C19_TagFileEqualsIndex ==
    /\ [](load_tags(tags_file) = tags_cache)
    /\ [][tags_cache' # tags_cache
           => tags_file'.exists /\ tags_file'.data = tags_cache']_vars

C19_Witness ==
    /\ last.op = "delete"
    /\ last.result = "ok"
    /\ tags_file.exists
    /\ tags_file.data = tags_cache
    /\ DOMAIN tags_cache # {}
    /\ last.doc_id \notin DOMAIN tags_file.data

\* A tag in the form the index is to hold: not empty, no capital letter, no space at
\* either end.
WellFormedTag(tag) ==
    /\ tag # <<>>
    /\ \A i \in 1..Len(tag) : tag[i] \notin DOMAIN Lowercase
    /\ Head(tag) # Space
    /\ tag[Len(tag)] # Space

\* Every stored tag is well-formed and no list holds a tag twice.
TagsWellFormed ==
    \A d \in DOMAIN tags_cache :
        /\ \A i \in 1..Len(tags_cache[d]) : WellFormedTag(tags_cache[d][i])
        /\ \A i, j \in 1..Len(tags_cache[d]) : tags_cache[d][i] = tags_cache[d][j] => i = j

\* Nothing but spaces: empty once trimmed.
Blank(raw) == \A i \in 1..Len(raw) : raw[i] = Space

\* C20 as stated: every stored tag is non-empty, lowercase and trimmed, no list holds
\* a tag twice, and add_tag with a tag that is empty after normalisation returns the
\* validation error and changes nothing, whatever the document.
C20_TagsNormalised_AnyDocument ==
    /\ []TagsWellFormed
    /\ [][Returned("add_tag") /\ Blank(last'.arg)
           => /\ last'.result = "empty"
              /\ UNCHANGED <<disk, document_cache, tags_cache, tags_file, versions>>]_vars

\* C20: every stored tag is non-empty, lowercase and trimmed, no list holds a tag
\* twice, and add_tag on a document in the cache with a tag that is empty after
\* normalisation returns the validation error and changes nothing.
C20_TagsNormalised ==
    /\ []TagsWellFormed
    /\ [][Returned("add_tag") /\ Blank(last'.arg) /\ last'.doc_id \in DOMAIN document_cache
           => /\ last'.result = "empty"
              /\ UNCHANGED <<disk, document_cache, tags_cache, tags_file, versions>>]_vars

C20_Witness ==
    /\ last.op = "add_tag"
    /\ last.result = "empty"
    /\ Blank(last.arg)
    /\ last.doc_id \in DOMAIN tags_cache
    /\ Len(tags_cache[last.doc_id]) = 2

\* C21: an entry of the tag index is created only by an add_tag that succeeds, and
\* it then holds the added tag; an entry becomes empty only through a remove_tag
\* that succeeds on it. So no entry is empty unless a tag was added to it earlier.
C21_NoEmptyEntryWithoutHistory ==
    /\ [][\A d \in DOMAIN tags_cache' \ DOMAIN tags_cache :
            /\ Returned("add_tag")
            /\ last'.result = "ok"
            /\ last'.doc_id = d
            /\ tags_cache'[d] # <<>>]_vars
    /\ [][\A d \in DOMAIN tags_cache' :
            tags_cache'[d] = <<>> /\ (d \in DOMAIN tags_cache => tags_cache[d] # <<>>)
            => /\ Returned("remove_tag")
               /\ last'.result = "ok"
               /\ last'.doc_id = d
               /\ d \in DOMAIN tags_cache]_vars

C21_Witness ==
    /\ last.op = "remove_tag"
    /\ last.result = "ok"
    /\ last.doc_id \in DOMAIN document_cache
    /\ last.doc_id \in DOMAIN tags_cache
    /\ tags_cache[last.doc_id] = <<>>

\* The tags of s other than tag, in their order.
Without(s, tag) == SelectSeq(s, LAMBDA x : x # tag)

C24_ArchiveChangesOnlyBySnapshot ==
    [][versions' # versions
       => /\ calls' = calls + 1
          /\ last'.result = "ok"
          /\ last'.doc_id \in DOMAIN document_cache
          /\ \/ last'.op = "update"
             \/ last'.op = "create" /\ last'.flag
             \/ last'.op = "delete" /\ last'.flag
             \/ last'.op = "restore"]_vars

C24_Witness ==
    /\ last.op = "restore"
    /\ last.result = "ok"
    /\ Cardinality(DOMAIN versions) = 2
    /\ \A n \in DOMAIN versions : is_snapshot_of(n, last.doc_id)

\* C25: whatever the iteration order of the tag index, search_by_tag(t) lists the
\* identifiers whose tag list holds the normalised t, all of them, each once, in
\* that order, and every identifier it lists is a document of the cache.
C25_SearchByTagExact ==
    \A raw \in RawTags, order \in iteration_orders(DOMAIN tags_cache) :
        LET docs == search_by_tag(order, tags_cache, document_cache, raw).docs
        IN  /\ docs = SelectSeq(order, LAMBDA d : InList(tags_cache[d], normalize(raw)))
            /\ \A i, j \in 1..Len(docs) : docs[i] = docs[j] => i = j
            /\ \A i \in 1..Len(docs) : docs[i] \in DOMAIN document_cache

C25_Witness ==
    /\ last.op = "add_tag"
    /\ Cardinality(DOMAIN tags_cache) = 2
    /\ \E order \in iteration_orders(DOMAIN tags_cache) :
            /\ search_by_tag(order, tags_cache, document_cache, <<"X">>).docs = <<AD>>
            /\ search_by_tag(order, tags_cache, document_cache, <<"y">>).docs = order

\* C27: every identifier with an entry in the tag index names a document of the
\* cache.
C27_NoOrphanTagEntries ==
    DOMAIN tags_cache \subseteq DOMAIN document_cache

C27_Witness ==
    /\ last.op = "create"
    /\ last.result = "ok"
    /\ tags_file.exists
    /\ tags_cache = EmptyDir
    /\ last.doc_id \in DOMAIN document_cache
    /\ exists(versions, version_file(last.doc_id, strftime(0)))

\* C28: a confirmed delete of d with content c leaves a version v of d that holds c,
\* is the newest of d and is listed for d; while d is absent its snapshots stay as
\* they are; and restore_version of an absent d from a snapshot taken of it
\* recreates d with the snapshot's content, takes no snapshot and leaves the tag
\* index, where d has no entry, as it was.
C28_DeleteThenRestore ==
    /\ [][Returned("delete") /\ last'.result = "ok" =>
            LET d == last'.doc_id
                v == strftime(clock)
            IN  /\ exists(versions', version_file(d, v))
                /\ versions'[version_file(d, v)] = document_cache[d].content
                /\ Head(newest_first(versions', d, MaxClock + 1)) = v
                /\ InList(list_versions(versions', d), v)
                /\ d \notin DOMAIN document_cache']_vars
    /\ [][\A d \in DocIds \ DOMAIN document_cache, t \in 0..(MaxClock + 1) :
            exists(versions, version_file(d, strftime(t)))
            => /\ exists(versions', version_file(d, strftime(t)))
               /\ versions'[version_file(d, strftime(t))]
                     = versions[version_file(d, strftime(t))]]_vars
    /\ [][/\ Returned("restore")
           /\ last'.doc_id \notin DOMAIN document_cache
           /\ Taken(versions, last'.doc_id, last'.arg)
           => /\ last'.result = "ok"
              /\ get_document(document_cache', last'.doc_id)
                    = versions[version_file(last'.doc_id, last'.arg)]
              /\ versions' = versions
              /\ UNCHANGED <<tags_cache, tags_file>>
              /\ last'.doc_id \notin DOMAIN tags_cache']_vars

C28_Witness ==
    /\ last.op = "restore"
    /\ last.result = "ok"
    /\ last.doc_id \in DOMAIN document_cache
    /\ tags_file.exists
    /\ last.doc_id \notin DOMAIN tags_cache
    /\ DOMAIN versions = {version_file(last.doc_id, last.arg)}
    /\ get_document(document_cache, last.doc_id) = versions[version_file(last.doc_id, last.arg)]

\* C29: whenever a call has returned, running the startup loads again gives the
\* document cache and the tag index that are in memory.
C29_RestartChangesNothing ==
    /\ load_documents(disk) = document_cache
    /\ load_tags(tags_file) = tags_cache

C29_Witness ==
    /\ last.op = "remove_tag"
    /\ last.result = "ok"
    /\ tags_cache[last.doc_id] = <<>>
    /\ load_tags(tags_file) = tags_cache
    /\ versions # EmptyDir
    /\ load_documents(disk) = document_cache

\* C30: create_document, update_document and restore_version leave the tag index
\* and the tag file as they were; add_tag and remove_tag leave the directory, the
\* cache and the archive as they were; and a call on document d leaves every other
\* document in place with its content.
C30_DocumentsAndTagsIndependent ==
    [][calls' = calls + 1 =>
        /\ last'.op \in {"create", "update", "restore"} => UNCHANGED <<tags_cache, tags_file>>
        /\ last'.op \in {"add_tag", "remove_tag"} => UNCHANGED <<disk, document_cache, versions>>
        /\ \A e \in (DOMAIN document_cache \cup DOMAIN document_cache') \ {last'.doc_id} :
                /\ e \in DOMAIN document_cache /\ e \in DOMAIN document_cache'
                /\ document_cache'[e] = document_cache[e]
                /\ disk'[e] = disk[e]]_vars

C30_Witness ==
    /\ last.op = "restore"
    /\ last.result = "ok"
    /\ last.doc_id \in DOMAIN tags_cache
    /\ tags_cache[last.doc_id] # <<>>
    /\ tags_file.data = tags_cache
    /\ Cardinality(DOMAIN document_cache) = 2
    /\ Cardinality(past[last.doc_id]) = 2

\* ------------------------------------------------- search_documents on its own

SearchInit ==
    /\ disk \in UNION {[S -> SearchContents] : S \in SUBSET DocIds}
    /\ document_cache = load_documents(disk)
    /\ tags_file = [exists |-> FALSE, data |-> EmptyDir]
    /\ tags_cache = load_tags(tags_file)
    /\ versions = EmptyDir
    /\ clock = 0
    /\ past = Remember([d \in DocIds |-> {}], document_cache)
    /\ last = NoCall
    /\ calls = 0
    /\ pc = "idle"
    /\ cur = NoCall

search_call(query, case_sensitive) ==
    /\ Idle
    /\ Returns(Call("search", <<>>, query, case_sensitive,
                    search_documents(document_cache, query, case_sensitive)))

SearchNext == \E q \in Queries, cs \in BOOLEAN : search_call(q, cs)

SpecSearch == SearchInit /\ [][SearchNext]_vars

\* The text holds the query at position i, letter for letter / up to letter case.
HoldsAt(text, query, i) ==
    /\ i + Len(query) - 1 <= Len(text)
    /\ \A k \in 1..Len(query) : text[i + k - 1] = query[k]
HoldsFoldedAt(text, query, i) ==
    /\ i + Len(query) - 1 <= Len(text)
    /\ \A k \in 1..Len(query) : lower_char(text[i + k - 1]) = lower_char(query[k])
Contains(text, query) == \E i \in 1..(Len(text) + 1) : HoldsAt(text, query, i)
ContainsFolded(text, query) == \E i \in 1..(Len(text) + 1) : HoldsFoldedAt(text, query, i)

\* What C12 says of one search_documents call and one cached document.
SearchReportsRight(d) ==
    /\ ~last.flag /\ ContainsFolded(Text(document_cache[d].content), last.arg)
            => d \in DOMAIN last.result.hits
    /\ last.flag /\ d \in DOMAIN last.result.hits
            => Contains(Text(document_cache[d].content), last.arg)

\* C12 as stated: search_documents(q, case_sensitive=False) reports every document
\* whose content contains q under some letter casing, and
\* search_documents(q, case_sensitive=True) reports only documents that contain q
\* literally, for every query q of at least one character.
C12_SearchMatchesLiterally_AnyQuery ==
    last.op = "search" /\ last.arg # <<>> =>
        \A d \in DOMAIN document_cache : SearchReportsRight(d)

\* C12, amended: the same for every query that is not empty or whitespace-only.
C12_SearchMatchesLiterally ==
    last.op = "search" /\ rstrip(lstrip(last.arg)) # <<>> =>
        \A d \in DOMAIN document_cache : SearchReportsRight(d)

C12_Witness ==
    /\ last.op = "search"
    /\ last.arg = <<".">>
    /\ last.flag
    /\ document_cache = A :> [id |-> A, content |-> "a.b"] @@ AD :> [id |-> AD, content |-> "New"]
    /\ last.result.hits = A :> 1

\* The occurrences of the query in the text from position i on, counted left to
\* right without overlap, letter for letter or up to letter case.
RECURSIVE OccurrencesFrom(_, _, _, _)
OccurrencesFrom(text, query, i, folded) ==
    IF i + Len(query) - 1 > Len(text) THEN 0
    ELSE IF (IF folded THEN HoldsFoldedAt(text, query, i) ELSE HoldsAt(text, query, i))
    THEN 1 + OccurrencesFrom(text, query, i + Len(query), folded)
    ELSE OccurrencesFrom(text, query, i + 1, folded)

\* The occurrences of the query of the last call in document d.
MatchCount(d) == OccurrencesFrom(Text(document_cache[d].content), last.arg, 1, ~last.flag)

\* C26: search_documents with an empty or whitespace-only query returns the
\* validation error; otherwise, whatever the iteration order of the cache, its
\* results are the cached documents with at least one match, each once, in that
\* order, each with the number of non-overlapping occurrences of the query; and
\* the call changes no state.
C26_SearchResultsExact ==
    /\ [](last.op = "search" =>
            IF Blank(last.arg)
            THEN last.result.kind = "error"
            ELSE /\ last.result.kind # "error"
                 /\ DOMAIN last.result.hits = {d \in DOMAIN document_cache : MatchCount(d) > 0}
                 /\ \A d \in DOMAIN last.result.hits : last.result.hits[d] = MatchCount(d)
                 /\ \A order \in iteration_orders(DOMAIN document_cache) :
                        LET results == search_results(order, document_cache, last.arg, last.flag)
                            matching == SelectSeq(order, LAMBDA d : MatchCount(d) > 0)
                        IN  results = [i \in 1..Len(matching) |->
                                        [doc_id |-> matching[i],
                                         match_count |-> MatchCount(matching[i])]])
    /\ [][Returned("search")
           => UNCHANGED <<disk, document_cache, tags_cache, tags_file, versions>>]_vars

C26_Witness ==
    /\ last.op = "search"
    /\ last.arg = <<"o", "o">>
    /\ document_cache = A :> [id |-> A, content |-> "ooo"]
                            @@ AD :> [id |-> AD, content |-> "hello world"]
    /\ last.result.hits = A :> 1
    /\ search_results(<<AD, A>>, document_cache, <<"o">>, FALSE)
            = <<[doc_id |-> AD, match_count |-> 2], [doc_id |-> A, match_count |-> 3]>>

CreateNext ==
    \/ Tick
    \/ \E d \in CreateIds, c \in Contents, o \in BOOLEAN : create_document(d, c, o)

SpecCreate == Init /\ [][CreateNext]_vars

\* The identifier pattern as the specification words it: at least one character,
\* each a letter, a digit, an underscore or a hyphen.
MatchesPattern(doc_id) ==
    /\ doc_id # <<>>
    /\ \A i \in 1..Len(doc_id) : doc_id[i] \in Letters \cup Digits \cup {"_", "-"}

\* C15: create_document with an identifier that is empty or has a character other
\* than letters, digits, underscore and hyphen returns the validation error and
\* changes nothing, so every identifier in the cache matches the pattern.
C15_InvalidIdRefused ==
    /\ [](\A d \in DOMAIN document_cache : MatchesPattern(d))
    /\ [][Returned("create") /\ ~MatchesPattern(last'.doc_id)
           => /\ last'.result = "invalid"
              /\ UNCHANGED <<disk, document_cache, tags_cache, tags_file, versions>>]_vars

====
